---- MODULE Spec2Model ----
(***************************************************************************)
(* WakeWander frontend: the streaming conversation controller.             *)
(*                                                                         *)
(*   src/WakeWander-frontend/src/lib/api.ts    streamChat / resumeChat:    *)
(*       the read loop that turns the chunks of an HTTP response body into *)
(*       parsed events (TextDecoder, split on newline, `data: ` filter,    *)
(*       JSON.parse inside try/catch).                                     *)
(*   src/WakeWander-frontend/src/app/page.tsx  Home: the React component   *)
(*       whose state (messages, isLoading, conversationId, currentStep,    *)
(*       interruptData, selectedSeason) is driven by handleSubmit,         *)
(*       handleInterruptResponse and handleStreamEvent.                    *)
(*                                                                         *)
(* Four specifications share the definitions of this module:               *)
(*   Spec        the component: user actions through the rendered          *)
(*               controls, and the sessions (async generators) they open.  *)
(*               A read step of a session delivers one complete line.      *)
(*   SpecRace    the same component with fewer kinds of line, followed     *)
(*               over a longer log.                                        *)
(*   SpecFold    one submission at a time, its session delivering every    *)
(*               kind of line.                                             *)
(*   SpecDecode  one read loop at byte level: a byte stream delivered in   *)
(*               arbitrary chunks.                                         *)
(*                                                                         *)
(* Text is a sequence of one-character strings; a byte is a string too.    *)
(* A message's id and timestamp (Date.now, Math.random) are left out: no   *)
(* branch of the code reads them.                                          *)
(***************************************************************************)
EXTENDS Integers, Sequences, FiniteSets, TLC

VARIABLES
    \* ---- React state of Home (page.tsx 48-62)
    messages,        \* Message[]: the log
    isLoading,       \* boolean
    conversationId,  \* string | null
    currentStep,     \* number
    interruptData,   \* InterruptData | null
    selectedSeason,  \* string | null
    \* ---- the async generators opened so far, in opening order
    sessions,
    \* ---- what the last step was (history, read by no action)
    last,
    \* ---- SpecDecode: one read loop of api.ts at byte level
    frames,          \* the lines the server wrote, as template numbers
    tail,            \* the unterminated text the server wrote after them
    stream,          \* the bytes of the response body
    pos,             \* bytes delivered by reader.read() so far
    decPending,      \* TextDecoder: bytes of an incomplete character
    buffer,          \* api.ts `buffer`
    yielded,         \* the values yielded so far
    rdone            \* reader.read() has reported done

ctlVars == <<messages, isLoading, conversationId, currentStep, interruptData,
             selectedSeason, sessions, last>>
decVars == <<frames, tail, stream, pos, decPending, buffer, yielded, rdone>>
vars == <<messages, isLoading, conversationId, currentStep, interruptData,
          selectedSeason, sessions, last,
          frames, tail, stream, pos, decPending, buffer, yielded, rdone>>

(***************************************************************************)
(* Bounds of the model.                                                    *)
(***************************************************************************)
\* entries of the log in one behaviour of Spec: a step that may append to
\* the log is taken only while the log is shorter
MaxLog == 5
\* entries of the log in one behaviour of SpecRace
MaxRaceLog == 6
\* entries of the log in one behaviour of SpecFold
MaxFoldLog == 4
\* newline-terminated lines of a byte stream of SpecDecode
MaxFrames == 2

(***************************************************************************)
(* Text helpers (JavaScript string operations).                            *)
(***************************************************************************)
RECURSIVE Flatten(_)
\* concatenation of a sequence of sequences
Flatten(ss) == IF ss = <<>> THEN <<>> ELSE Head(ss) \o Flatten(Tail(ss))

\* a filter that finds the prefix anywhere in the line (String.includes)
StartsWithAnywhere(line, prefix) ==
    \E i \in 1..(Len(line) + 1) :
        /\ i + Len(prefix) - 1 <= Len(line)
        /\ SubSeq(line, i, i + Len(prefix) - 1) = prefix

\* String.prototype.startsWith
StartsWith(line, prefix) ==
    /\ Len(line) >= Len(prefix)
    /\ SubSeq(line, 1, Len(prefix)) = prefix

\* String.prototype.slice(n), n >= 0
Slice(line, n) == SubSeq(line, n + 1, Len(line))

RECURSIVE SplitNL(_)
\* String.prototype.split('\n'): always at least one piece
SplitNL(text) ==
    LET nls == {k \in 1..Len(text) : text[k] = "\n"}
    IN  IF nls = {} THEN <<text>>
        ELSE LET i == CHOOSE k \in nls : \A j \in nls : k <= j
             IN  <<SubSeq(text, 1, i - 1)>> \o SplitNL(SubSeq(text, i + 1, Len(text)))

WhiteSpace == {" ", "\t", "\n", "\r", "\f"}

RECURSIVE TrimStart(_)
TrimStart(cs) ==
    IF cs # <<>> /\ Head(cs) \in WhiteSpace THEN TrimStart(Tail(cs)) ELSE cs

RECURSIVE TrimEnd(_)
TrimEnd(cs) ==
    IF cs # <<>> /\ cs[Len(cs)] \in WhiteSpace
    THEN TrimEnd(SubSeq(cs, 1, Len(cs) - 1))
    ELSE cs

\* String.prototype.trim
Trim(cs) == TrimEnd(TrimStart(cs))

(***************************************************************************)
(* Values.  A string field that is absent (undefined) holds Absent; a      *)
(* JavaScript truthiness test of a string is Truthy.                       *)
(***************************************************************************)
Absent == "<undefined>"
Truthy(s) == s # Absent /\ s # ""

\* Text (content, question, typed input) is a sequence of pieces; text that
\* the code does not take apart is written as one piece.
T(s) == <<s>>
AbsentText == <<Absent>>
TruthyText(t) == t # AbsentText /\ t # <<>>

\* conversationId === null
NoId == "<null>"
\* interruptData === null
NoInterrupt == [held |-> FALSE]
\* a field `data` that is undefined
NoData == [absent |-> TRUE]

\* An answer value: a number (an option index) or a string.
NumV(n) == [isNum |-> TRUE, num |-> n, text |-> <<>>]
StrV(s) == [isNum |-> FALSE, num |-> 0, text |-> s]
NoValue == [isNum |-> FALSE, num |-> 0, text |-> AbsentText]

\* What JSON.parse returns.  json is the kind of the value: an object (an
\* event record, api.ts StreamEvent), null, or a number.
Value(kind) ==
    [json |-> kind, type |-> Absent, step |-> Absent, content |-> AbsentText,
     contentIsString |-> TRUE, conversation_id |-> Absent, data |-> NoData,
     interrupt_type |-> Absent, question |-> AbsentText, field |-> Absent,
     options |-> <<>>, missing_info |-> Absent, budget_allocation |-> Absent]

Ev(type) == [Value("object") EXCEPT !.type = type]

\* String.prototype.includes
Includes(text, pat) ==
    \E i \in 1..(Len(text) + 1) :
        /\ i + Len(pat) - 1 <= Len(text)
        /\ SubSeq(text, i, i + Len(pat) - 1) = pat

Starting == <<"S", "t", "a", "r", "t", "i", "n", "g">>
Processing == <<"P", "r", "o", "c", "e", "s", "s", "i", "n", "g">>

(***************************************************************************)
(* The JSON documents of the model.  A document's text is abbreviated to a *)
(* few characters; JSONParse maps the text to the value JSON.parse         *)
(* returns for the document it stands for, and fails on any other text.    *)
(***************************************************************************)
EvSystemStarting ==
    [Ev("system") EXCEPT !.content = Starting \o <<".", ".", ".">>,
                         !.conversation_id = "a"]
EvSystemWelcome ==
    [Ev("system") EXCEPT !.content = T("Welcome"), !.conversation_id = "b"]
\* {"type":"system","content":5}
EvSystemNumber ==
    [Ev("system") EXCEPT !.content = T("5"), !.contentIsString = FALSE]
EvMessageProcessing == [Ev("message") EXCEPT !.content = Processing]
EvMessageEmpty == [Ev("message") EXCEPT !.content = <<>>]
EvResume == Ev("resume")
EvResumeAck == [Ev("resume") EXCEPT !.conversation_id = "r"]
EvInterruptQuestion ==
    [Ev("interrupt") EXCEPT !.interrupt_type = "question",
                            !.question = T("How many days?"),
                            !.field = "duration_days",
                            !.missing_info = "duration_days"]
EvInterruptDestination ==
    [Ev("interrupt") EXCEPT !.interrupt_type = "destination_selection",
                            !.question = T("Pick one"),
                            !.options = <<[name |-> T("Kyoto")], [name |-> AbsentText]>>,
                            !.budget_allocation = "budget",
                            !.conversation_id = "a"]
EvStep ==
    [Ev("step") EXCEPT !.step = "Analyzing", !.content = T("Looking at options"),
                       !.data = [season |-> "summer"]]
EvResearch == [Ev("research") EXCEPT !.step = "Research"]
EvAnalysis == [Ev("analysis") EXCEPT !.step = "Analysis"]
EvSeason == [Ev("season") EXCEPT !.step = "Season"]
EvPlanning == [Ev("planning") EXCEPT !.step = "Planning"]
EvResult == [Ev("result") EXCEPT !.content = T("Done")]
EvError == Ev("error")
\* {"type":"message","content":"é"}: a character of two UTF-8 bytes
EvMessageAccent == [Ev("message") EXCEPT !.content = <<"U+00E9">>]

Docs ==
    { [text |-> <<"{", "y", "1", "}">>, value |-> EvSystemStarting],
      [text |-> <<"{", "y", "2", "}">>, value |-> EvSystemWelcome],
      [text |-> <<"{", "y", "5", "}">>, value |-> EvSystemNumber],
      [text |-> <<"{", "m", "1", "}">>, value |-> EvMessageProcessing],
      [text |-> <<"{", "m", "0", "}">>, value |-> EvMessageEmpty],
      [text |-> <<"{", "u", "}">>, value |-> EvResume],
      [text |-> <<"{", "u", "1", "}">>, value |-> EvResumeAck],
      [text |-> <<"{", "i", "q", "}">>, value |-> EvInterruptQuestion],
      [text |-> <<"{", "i", "d", "}">>, value |-> EvInterruptDestination],
      [text |-> <<"{", "s", "}">>, value |-> EvStep],
      [text |-> <<"{", "e", "}">>, value |-> EvResearch],
      [text |-> <<"{", "a", "}">>, value |-> EvAnalysis],
      [text |-> <<"{", "n", "}">>, value |-> EvSeason],
      [text |-> <<"{", "p", "}">>, value |-> EvPlanning],
      [text |-> <<"{", "r", "}">>, value |-> EvResult],
      [text |-> <<"{", "x", "}">>, value |-> EvError],
      [text |-> <<"{", "U+00E9", "}">>, value |-> EvMessageAccent],
      [text |-> <<"n", "u", "l", "l">>, value |-> Value("null")],
      [text |-> <<"5">>, value |-> Value("number")] }

\* JSON.parse: the value, or ok = FALSE where it throws SyntaxError.  White
\* space around the document is allowed.
JSONParse(text) ==
    LET doc == Trim(text)
    IN  IF \E d \in Docs : d.text = doc
        THEN [ok |-> TRUE, value |-> (CHOOSE d \in Docs : d.text = doc).value]
        ELSE [ok |-> FALSE, value |-> Value("null")]

(***************************************************************************)
(* api.ts 33-52 (streamChat) and 73-92 (resumeChat): the two read loops    *)
(* are the same text.                                                      *)
(***************************************************************************)
DataPrefix == <<"d", "a", "t", "a", ":", " ">>

\* a read loop whose catch hands the failed frame to the consumer as null
LineYieldUncaught(line) ==
    IF StartsWith(line, DataPrefix)
    THEN LET r == JSONParse(Slice(line, 6))
         IN  IF r.ok THEN <<r.value>> ELSE <<Value("null")>>
    ELSE <<>>

\* api.ts 43-49: what one complete line makes the generator yield
LineYield(line) ==
    IF StartsWith(line, DataPrefix)
    THEN LET r == JSONParse(Slice(line, 6))
         IN  IF r.ok THEN <<r.value>> ELSE <<>>
    ELSE <<>>

RECURSIVE LinesYield(_)
\* api.ts 42-50: the for loop over the complete lines of a chunk
LinesYield(lines) ==
    IF lines = <<>> THEN <<>>
    ELSE LineYield(Head(lines)) \o LinesYield(Tail(lines))

\* api.ts 39: the complete lines of the buffer (all pieces but the last)
CompleteLines(text) ==
    LET pieces == SplitNL(text) IN SubSeq(pieces, 1, Len(pieces) - 1)

\* a read loop that starts every chunk with an empty buffer
RemainderDropped(text) == <<>>

\* api.ts 40: buffer = lines.pop() || ''
Remainder(text) ==
    LET pieces == SplitNL(text) IN pieces[Len(pieces)]

(***************************************************************************)
(* TextDecoder.decode(value, {stream: true}), api.ts 38.  The bytes of the *)
(* model are the ASCII characters themselves and the two bytes C3 A9 of    *)
(* U+00E9.  With stream: true an incomplete character at the end of a      *)
(* chunk is kept for the next call; a malformed sequence decodes to U+FFFD.*)
(***************************************************************************)
RECURSIVE DecodeBytes(_, _)
\* [text, pending] after decoding bytes with `pend` carried in
DecodeBytes(pend, bytes) ==
    IF bytes = <<>> THEN [text |-> <<>>, pending |-> pend]
    ELSE IF pend = <<>> /\ \A k \in 1..Len(bytes) : bytes[k] \notin {"C3", "A9"}
    THEN \* ASCII bytes decode to themselves
         [text |-> bytes, pending |-> <<>>]
    ELSE LET b == Head(bytes)
             rest == Tail(bytes)
         IN  IF pend = <<"C3">>
             THEN IF b = "A9"
                  THEN LET r == DecodeBytes(<<>>, rest)
                       IN  [text |-> <<"U+00E9">> \o r.text, pending |-> r.pending]
                  ELSE LET r == DecodeBytes(<<>>, bytes)
                       IN  [text |-> <<"U+FFFD">> \o r.text, pending |-> r.pending]
             ELSE IF b = "C3" THEN DecodeBytes(<<"C3">>, rest)
             ELSE LET r == DecodeBytes(<<>>, rest)
                  IN  [text |-> <<(IF b = "A9" THEN "U+FFFD" ELSE b)>> \o r.text,
                       pending |-> r.pending]

\* decoder.decode(value, {stream: true})
Decode(pend, bytes) == DecodeBytes(pend, bytes)

\* api.ts 38-50: one iteration of the read loop on a chunk of bytes:
\* the new decoder state, the new buffer and the values yielded
ReadChunk(pend, buf, chunk) ==
    LET d == Decode(pend, chunk)
        text == buf \o d.text
    IN  [pending |-> d.pending,
         buffer |-> Remainder(text),
         yields |-> LinesYield(CompleteLines(text))]

(***************************************************************************)
(* page.tsx: the component Home.                                           *)
(***************************************************************************)
\* selectedSeason === null
NoSeason == "<null>"

\* interface Message (page.tsx 8-15), without id and timestamp
Entry(type, step, content, data) ==
    [type |-> type, step |-> step, content |-> content, data |-> data]

\* page.tsx 48-55: the log the component starts with
WelcomeMessage == Entry("system", Absent, T("Welcome to AI Travel Planner!"), NoData)

\* a setMessages that puts the new entry first
addMessagePrepends(log, entry) == <<entry>> \o log

\* page.tsx 69-78
addMessage(log, entry) == Append(log, entry)

\* page.tsx 99 and 130
ErrorEntry ==
    Entry("error", Absent, T("Sorry, I encountered an error. Please try again."), NoData)

\* A session: the async generator made by a streamChat or resumeChat call,
\* with the consuming for-await loop of the handler that made it.
\*   body    the JSON body of its request (api.ts 24, 61-64)
\*   cid     conversationId as the handler's closure holds it: the value of
\*           the render in which the handler was called
\*   status  "fetching"  the request is sent, the response awaited
\*           "reading"   inside the read loop
\*           "ended"     the loop has ended: done, or an exception thrown
\*                       by fetch or read
\*           "returned"  the consumer threw: the generator was returned at
\*                       its yield, the reader neither cancelled nor released
\*   terminal  history: the loop has folded a result, interrupt or error
\*           event of this session
Session(kind, body, cid) ==
    [kind |-> kind, body |-> body, cid |-> cid, status |-> "fetching",
     terminal |-> FALSE]

Open(s) == sessions[s].status \in {"fetching", "reading"}
OpenSessions == {s \in 1..Len(sessions) : Open(s)}

\* api.ts 29-52: the response body of session s is open.  The reader got at
\* line 29 is never cancelled or released: the body stays open until the
\* stream reports done or fails, also after the generator was returned.
ConnectionOpen(s) == sessions[s].status \in {"reading", "returned"}

\* the step just taken and how it ended
Step(op, outcome) == [op |-> op, outcome |-> outcome]

\* ------------------------------------------------------------ handleSubmit

\* page.tsx 756: the text input is disabled
InputDisabled == isLoading \/ interruptData # NoInterrupt

\* a submit button that stays enabled while an interrupt is pending
SubmitDisabledNoInterrupt(text) == isLoading \/ Trim(text) = <<>>

\* page.tsx 763: the submit button is disabled.  With the form's only
\* submit button disabled the browser submits the form neither on a click
\* nor on Enter in the input.
SubmitDisabled(text) ==
    isLoading \/ Trim(text) = <<>> \/ interruptData # NoInterrupt

\* page.tsx 82: the early return of handleSubmit
SubmitReturns(text) == Trim(text) = <<>> \/ isLoading

\* a streamChat call that leaves the conversation id out
StartBodyNoId(text) ==
    [message |-> text, conversation_id |-> NoId, value |-> NoValue]

\* page.tsx 94 and api.ts 24: conversationId || undefined, then || null
StartBody(text) ==
    [message |-> text,
     conversation_id |-> IF Truthy(conversationId) /\ conversationId # NoId
                         THEN conversationId ELSE NoId,
     value |-> NoValue]

\* a handleSubmit that sends and logs the input as it was typed
handleSubmitRaw(text) ==
    /\ isLoading' = TRUE
    /\ currentStep' = 0
    /\ interruptData' = NoInterrupt
    /\ selectedSeason' = NoSeason
    /\ messages' = addMessage(messages, Entry("user", Absent, text, NoData))
    /\ sessions' = Append(sessions, Session("start", StartBody(text), conversationId))
    /\ last' = Step("submit", "accepted")
    /\ UNCHANGED conversationId

\* page.tsx 84-96, up to the first await (the fetch of api.ts 21)
handleSubmit(text) ==
    LET userMessage == Trim(text) IN
    /\ isLoading' = TRUE
    /\ currentStep' = 0
    /\ interruptData' = NoInterrupt
    /\ selectedSeason' = NoSeason
    /\ messages' = addMessage(messages, Entry("user", Absent, userMessage, NoData))
    /\ sessions' = Append(sessions,
                          Session("start", StartBody(userMessage), conversationId))
    /\ last' = Step("submit", "accepted")
    /\ UNCHANGED conversationId

\* what the user may type into the message input
Inputs == { <<>>, <<" ">>, <<"h", "i">>, <<" ", "h", "i", " ">> }

\* The user submits the message form with `text` typed in (page.tsx 748).
FormSubmit(text) ==
    /\ UNCHANGED decVars
    /\ IF SubmitDisabled(text)
       THEN /\ last' = Step("submit", "blocked")
            /\ UNCHANGED <<messages, isLoading, conversationId, currentStep,
                           interruptData, selectedSeason, sessions>>
       ELSE IF SubmitReturns(text)
       THEN /\ last' = Step("submit", "returned")
            /\ UNCHANGED <<messages, isLoading, conversationId, currentStep,
                           interruptData, selectedSeason, sessions>>
       ELSE handleSubmit(text)

\* ------------------------------------------------- handleInterruptResponse

Digits == <<"0", "1", "2", "3", "4", "5", "6", "7", "8", "9">>

RECURSIVE NumStringOf(_)
\* String(n) for a number n >= 0
NumStringOf(n) ==
    IF n < 10 THEN <<Digits[n + 1]>>
    ELSE NumStringOf(n \div 10) \o <<Digits[(n % 10) + 1]>>

\* String(value)
StringOf(value) == IF value.isNum THEN NumStringOf(value.num) ELSE value.text

\* options?.[value]: <<the element>>, or <<>> for undefined.  A string is
\* an index too when it is the canonical text of one.
OptionAt(options, value) ==
    LET hits == {n \in 0..(Len(options) - 1) :
                    IF value.isNum THEN n = value.num
                    ELSE NumStringOf(n) = value.text}
    IN  IF hits = {} THEN <<>> ELSE <<options[(CHOOSE n \in hits : TRUE) + 1]>>

\* an echo that always shows the raw value
ResponseTextRaw(interrupt, value) == StringOf(value)

\* page.tsx 114-120
ResponseText(interrupt, value) ==
    IF interrupt.type = "destination_selection"
    THEN LET selectedOption == OptionAt(interrupt.options, value)
         IN  IF selectedOption # <<>> /\ TruthyText(selectedOption[1].name)
             THEN selectedOption[1].name
             ELSE <<"Option ">> \o StringOf(value)
    ELSE StringOf(value)

\* an early return that does not look at conversationId
AnswerReturnsNoIdCheck == interruptData = NoInterrupt

\* page.tsx 106: the early return of handleInterruptResponse
AnswerReturns == conversationId = NoId \/ interruptData = NoInterrupt

\* a request that sends the display label in place of the value
ResumeBodyLabel(value) ==
    [message |-> AbsentText, conversation_id |-> conversationId,
     value |-> StrV(ResponseText(interruptData, value))]

\* api.ts 61-64
ResumeBody(value) ==
    [message |-> AbsentText, conversation_id |-> conversationId, value |-> value]

\* a handler that leaves the interrupt in place
KeepInterrupt == interruptData

\* page.tsx 110: setInterruptData(null)
ClearInterrupt == NoInterrupt

\* a handleInterruptResponse that starts the count again, as handleSubmit does
handleInterruptResponseResets(value) ==
    IF AnswerReturns
    THEN /\ last' = Step("answer", "returned")
         /\ UNCHANGED <<messages, isLoading, conversationId, currentStep,
                        interruptData, selectedSeason, sessions>>
    ELSE /\ isLoading' = TRUE
         /\ currentStep' = 0
         /\ interruptData' = ClearInterrupt
         /\ messages' = addMessage(messages,
                Entry("user", Absent, ResponseText(interruptData, value), NoData))
         /\ sessions' = Append(sessions,
                               Session("resume", ResumeBody(value), conversationId))
         /\ last' = Step("answer", "accepted")
         /\ UNCHANGED <<conversationId, selectedSeason>>

\* page.tsx 105-127, up to the first await (the fetch of api.ts 58)
handleInterruptResponse(value) ==
    IF AnswerReturns
    THEN /\ last' = Step("answer", "returned")
         /\ UNCHANGED <<messages, isLoading, conversationId, currentStep,
                        interruptData, selectedSeason, sessions>>
    ELSE /\ isLoading' = TRUE
         /\ interruptData' = ClearInterrupt
         /\ messages' = addMessage(messages,
                Entry("user", Absent, ResponseText(interruptData, value), NoData))
         /\ sessions' = Append(sessions,
                               Session("resume", ResumeBody(value), conversationId))
         /\ last' = Step("answer", "accepted")
         /\ UNCHANGED <<conversationId, currentStep, selectedSeason>>

\* page.tsx 354 and 391: message m of the log shows destination buttons
ShowsOptions(m) ==
    /\ messages[m].type = "interrupt"
    /\ messages[m].data.type = "destination_selection"

\* page.tsx 395: the destination buttons are disabled
OptionsDisabled == interruptData = NoInterrupt

\* The user clicks button i of the interrupt message m (page.tsx 391-396).
ClickOption(m, i) ==
    /\ ShowsOptions(m)
    /\ i \in 0..(Len(messages[m].data.options) - 1)
    /\ UNCHANGED decVars
    /\ IF OptionsDisabled
       THEN /\ last' = Step("answer", "blocked")
            /\ UNCHANGED <<messages, isLoading, conversationId, currentStep,
                           interruptData, selectedSeason, sessions>>
       ELSE handleInterruptResponse(NumV(i))

SeasonTexts == { T("spring"), T("summer"), T("fall"), T("winter") }
\* what the user may type into the answer input
AnswerTexts == { <<"5">>, <<" ">> }

\* page.tsx 458: message m of the log shows the controls of a question
ShowsQuestion(m) ==
    /\ messages[m].type = "interrupt"
    /\ messages[m].data.type = "question"
    /\ interruptData # NoInterrupt

\* The user answers through the controls of the question message m: a
\* season button (page.tsx 460-477) or the answer form (page.tsx 479-520).
AnswerQuestion(m, text) ==
    /\ messages[m].type = "interrupt"
    /\ messages[m].data.type = "question"
    /\ IF messages[m].data.field = "season"
       THEN text \in SeasonTexts
       ELSE text \in AnswerTexts
    /\ UNCHANGED decVars
    /\ IF ~ShowsQuestion(m) \/ Trim(text) = <<>>
       THEN /\ last' = Step("answer", "blocked")
            /\ UNCHANGED <<messages, isLoading, conversationId, currentStep,
                           interruptData, selectedSeason, sessions>>
       ELSE handleInterruptResponse(StrV(text))

\* ------------------------------------------------------- handleStreamEvent

\* interface InterruptData (page.tsx 17-24), as built at page.tsx 166-173
InterruptInfo(event) ==
    [held |-> TRUE,
     type |-> event.interrupt_type,
     question |-> IF TruthyText(event.question) THEN event.question ELSE <<>>,
     field |-> event.field,
     options |-> event.options,
     missing_info |-> event.missing_info,
     budget_allocation |-> event.budget_allocation]

\* page.tsx 177-186
InterruptEntry(event) ==
    Entry("interrupt", Absent,
          IF TruthyText(event.question) THEN event.question
          ELSE T("Please provide more information"),
          [type |-> event.interrupt_type, options |-> event.options,
           field |-> event.field, budget_allocation |-> event.budget_allocation])

\* page.tsx 139-141.  `cid` is conversationId as the closure that runs the
\* for-await loop holds it, not the current state.
BindConversationId(event, cid) ==
    IF Truthy(event.conversation_id) /\ cid = NoId
    THEN event.conversation_id
    ELSE conversationId

\* a system case that puts its entry at the top of the log
CaseSystemOnTop(event) ==
    /\ messages' = IF /\ TruthyText(event.content)
                      /\ ~Includes(event.content, Starting)
                      /\ ~Includes(event.content, Processing)
                   THEN <<Entry("system", Absent, event.content, NoData)>> \o messages
                   ELSE messages
    /\ UNCHANGED <<isLoading, currentStep, interruptData, selectedSeason>>

\* page.tsx 144-148
CaseSystem(event) ==
    /\ messages' = IF /\ TruthyText(event.content)
                      /\ ~Includes(event.content, Starting)
                      /\ ~Includes(event.content, Processing)
                   THEN addMessage(messages, Entry("system", Absent, event.content, NoData))
                   ELSE messages
    /\ UNCHANGED <<isLoading, currentStep, interruptData, selectedSeason>>

\* page.tsx 150-155
CaseMessage(event) ==
    /\ messages' = IF TruthyText(event.content)
                   THEN addMessage(messages, Entry("system", Absent, event.content, NoData))
                   ELSE messages
    /\ UNCHANGED <<isLoading, currentStep, interruptData, selectedSeason>>

\* a resume case that shows the acknowledgement in the log
CaseResumeEchoes(event) ==
    /\ messages' = addMessage(messages, Entry("system", Absent, T("resume"), NoData))
    /\ UNCHANGED <<isLoading, currentStep, interruptData, selectedSeason>>

\* page.tsx 157-159
CaseResume(event) ==
    UNCHANGED <<messages, isLoading, currentStep, interruptData, selectedSeason>>

\* an interrupt case without setIsLoading(false)
CaseInterruptStaysBusy(event) ==
    /\ interruptData' = InterruptInfo(event)
    /\ messages' = addMessage(messages, InterruptEntry(event))
    /\ UNCHANGED <<isLoading, currentStep, selectedSeason>>

\* page.tsx 161-187
CaseInterrupt(event) ==
    /\ isLoading' = FALSE
    /\ interruptData' = InterruptInfo(event)
    /\ messages' = addMessage(messages, InterruptEntry(event))
    /\ UNCHANGED <<currentStep, selectedSeason>>

\* the fallback content of a progress entry (page.tsx 194, 209, 219, 229, 239)
DefaultContent(type) ==
    CASE type = "step" -> T("Processing...")
      [] type = "research" -> T("Researching destinations...")
      [] type = "analysis" -> T("Analyzing options...")
      [] type = "season" -> T("Season recommendations...")
      [] type = "planning" -> T("Planning itinerary...")

\* a progress entry that is always tagged step
ProgressEntryAsStep(event) ==
    Entry("step", event.step,
          IF TruthyText(event.content) THEN event.content ELSE DefaultContent(event.type),
          event.data)

\* page.tsx 191-196, 206-211, 216-221, 226-231, 236-241
ProgressEntry(event) ==
    Entry(event.type, event.step,
          IF TruthyText(event.content) THEN event.content ELSE DefaultContent(event.type),
          event.data)

\* page.tsx 189-202
CaseStep(event) ==
    /\ currentStep' = currentStep + 1
    /\ messages' = addMessage(messages, ProgressEntry(event))
    /\ selectedSeason' = IF event.data # NoData /\ Truthy(event.data.season)
                         THEN event.data.season
                         ELSE selectedSeason
    /\ UNCHANGED <<isLoading, interruptData>>

\* page.tsx 204-242: research, analysis, season, planning
CaseProgress(event) ==
    /\ currentStep' = currentStep + 1
    /\ messages' = addMessage(messages, ProgressEntry(event))
    /\ UNCHANGED <<isLoading, interruptData, selectedSeason>>

\* page.tsx 245: the progress bar's full count
TotalSteps == 8

\* a result case that leaves the count where it is
CaseResultKeepsCount(event) ==
    /\ messages' = addMessage(messages,
            Entry("result", event.step,
                  IF TruthyText(event.content) THEN event.content ELSE T("Complete!"),
                  event))
    /\ UNCHANGED <<isLoading, currentStep, interruptData, selectedSeason>>

\* page.tsx 244-252.  The entry's data is the event itself.
CaseResult(event) ==
    /\ currentStep' = TotalSteps
    /\ messages' = addMessage(messages,
            Entry("result", event.step,
                  IF TruthyText(event.content) THEN event.content ELSE T("Complete!"),
                  event))
    /\ UNCHANGED <<isLoading, interruptData, selectedSeason>>

\* an error case without setIsLoading(false)
CaseErrorStaysBusy(event) ==
    /\ messages' = addMessage(messages,
            Entry("error", Absent,
                  IF TruthyText(event.content) THEN event.content
                  ELSE T("An error occurred."),
                  NoData))
    /\ UNCHANGED <<isLoading, currentStep, interruptData, selectedSeason>>

\* page.tsx 254-257
CaseError(event) ==
    /\ messages' = addMessage(messages,
            Entry("error", Absent,
                  IF TruthyText(event.content) THEN event.content
                  ELSE T("An error occurred."),
                  NoData))
    /\ isLoading' = FALSE
    /\ UNCHANGED <<currentStep, interruptData, selectedSeason>>

\* page.tsx 136-259, for an event on which it does not throw
handleStreamEvent(event, cid) ==
    /\ conversationId' = BindConversationId(event, cid)
    /\ CASE event.type = "system" -> CaseSystem(event)
         [] event.type = "message" -> CaseMessage(event)
         [] event.type = "resume" -> CaseResume(event)
         [] event.type = "interrupt" -> CaseInterrupt(event)
         [] event.type = "step" -> CaseStep(event)
         [] event.type \in {"research", "analysis", "season", "planning"} ->
                CaseProgress(event)
         [] event.type = "result" -> CaseResult(event)
         [] event.type = "error" -> CaseError(event)
         [] OTHER -> UNCHANGED <<messages, isLoading, currentStep, interruptData,
                                 selectedSeason>>

\* page.tsx 137: event.type of null is a TypeError
ThrowsOnEntry(event) == event.json = "null"

\* page.tsx 145: event.content.includes of a content that is no string is a
\* TypeError, raised after page.tsx 139-141 has run
ThrowsInSwitch(event) ==
    /\ event.json = "object"
    /\ event.type = "system"
    /\ TruthyText(event.content)
    /\ ~event.contentIsString

\* page.tsx 97-102 and 128-133: catch and finally of the consuming loop
CatchFinally ==
    /\ messages' = addMessage(messages, ErrorEntry)
    /\ isLoading' = FALSE
    /\ UNCHANGED <<currentStep, interruptData, selectedSeason>>

\* page.tsx 100-102 and 131-133: finally alone
Finally ==
    /\ isLoading' = FALSE
    /\ UNCHANGED <<messages, currentStep, interruptData, selectedSeason>>

\* ------------------------------------------------------------ the sessions

SetStatus(s, status) == sessions' = [sessions EXCEPT ![s].status = status]

\* api.ts 21-31 (58-71): the response arrives with a 2xx status and a body
FetchOk(s) ==
    /\ s \in 1..Len(sessions)
    /\ sessions[s].status = "fetching"
    /\ SetStatus(s, "reading")
    /\ last' = Step("open", "ok")
    /\ UNCHANGED <<messages, isLoading, conversationId, currentStep,
                   interruptData, selectedSeason>>
    /\ UNCHANGED decVars

\* api.ts 27 and 31 (67 and 71): fetch rejects, the status is not 2xx or
\* there is no body; the generator throws before its first yield
FetchFail(s) ==
    /\ s \in 1..Len(sessions)
    /\ sessions[s].status = "fetching"
    /\ SetStatus(s, "ended")
    /\ CatchFinally
    /\ last' = Step("open", "failed")
    /\ UNCHANGED conversationId
    /\ UNCHANGED decVars

\* the complete lines a read step of Spec may deliver
CtlLines ==
    { DataPrefix \o d.text :
        d \in {d \in Docs : d.value \notin {EvMessageAccent, EvAnalysis, EvSeason,
                                             EvPlanning, EvResumeAck}} }
    \cup { DataPrefix \o <<"n", "o", "t", "-", "j", "s", "o", "n">>,
           <<>>,
           <<"d", "a", "t", "a", ":", "{", "s", "}">> }

\* the events after which the server is done with the turn
TerminalTypes == {"result", "interrupt", "error"}

\* api.ts 35-50 with page.tsx 94-96 (125-127): reader.read() returns a chunk
\* that completes one line; the line's value, if it has one, is yielded and
\* folded by the consuming loop.
ReadLine(s, line) ==
    /\ s \in 1..Len(sessions)
    /\ sessions[s].status = "reading"
    /\ UNCHANGED decVars
    /\ LET ys == LineYield(line)
       IN  IF ys = <<>>
           THEN /\ UNCHANGED sessions
                /\ last' = Step("read",
                                IF StartsWith(line, DataPrefix) THEN "parse-error"
                                ELSE "skipped")
                /\ UNCHANGED <<messages, isLoading, conversationId, currentStep,
                               interruptData, selectedSeason>>
           ELSE IF ThrowsOnEntry(ys[1])
           THEN /\ SetStatus(s, "returned")
                /\ CatchFinally
                /\ last' = Step("read", "threw")
                /\ UNCHANGED conversationId
           ELSE IF ThrowsInSwitch(ys[1])
           THEN /\ SetStatus(s, "returned")
                /\ conversationId' = BindConversationId(ys[1], sessions[s].cid)
                /\ CatchFinally
                /\ last' = Step("read", "threw")
           ELSE /\ sessions' = [sessions EXCEPT ![s].terminal =
                                    @ \/ ys[1].type \in TerminalTypes]
                /\ handleStreamEvent(ys[1], sessions[s].cid)
                /\ last' = Step("read", "folded")

\* api.ts 35-36 with page.tsx 100-102: reader.read() reports done
ReadDone(s) ==
    /\ s \in 1..Len(sessions)
    /\ sessions[s].status = "reading"
    /\ SetStatus(s, "ended")
    /\ Finally
    /\ last' = Step("done", "ok")
    /\ UNCHANGED conversationId
    /\ UNCHANGED decVars

\* api.ts 35 with page.tsx 97-102: reader.read() rejects
ReadFail(s) ==
    /\ s \in 1..Len(sessions)
    /\ sessions[s].status = "reading"
    /\ SetStatus(s, "ended")
    /\ CatchFinally
    /\ last' = Step("done", "failed")
    /\ UNCHANGED conversationId
    /\ UNCHANGED decVars

\* ------------------------------------------------------- the specification

\* SpecDecode's variables while Spec runs
DecIdle ==
    /\ frames = <<>>
    /\ tail = <<>>
    /\ stream = <<>>
    /\ pos = 0
    /\ decPending = <<>>
    /\ buffer = <<>>
    /\ yielded = <<>>
    /\ rdone = FALSE

\* page.tsx 48-62: the state of the first render
CtlInit ==
    /\ messages = <<WelcomeMessage>>
    /\ isLoading = FALSE
    /\ conversationId = NoId
    /\ currentStep = 0
    /\ interruptData = NoInterrupt
    /\ selectedSeason = NoSeason
    /\ sessions = <<>>
    /\ last = Step("init", "ok")

Init == CtlInit /\ DecIdle

\* the log is shorter than MaxLog: a step that may append to it is taken
Room == Len(messages) < MaxLog

Next ==
    \/ Room /\ \E text \in Inputs : FormSubmit(text)
    \/ Room /\ \E m \in 1..Len(messages) : \E i \in 0..3 : ClickOption(m, i)
    \/ Room /\ \E m \in 1..Len(messages) : \E text \in SeasonTexts \cup AnswerTexts :
                  AnswerQuestion(m, text)
    \/ \E s \in 1..Len(sessions) : FetchOk(s)
    \/ Room /\ \E s \in 1..Len(sessions) : FetchFail(s)
    \/ Room /\ \E s \in 1..Len(sessions) : \E line \in CtlLines : ReadLine(s, line)
    \/ \E s \in 1..Len(sessions) : ReadDone(s)
    \/ Room /\ \E s \in 1..Len(sessions) : ReadFail(s)

Spec == Init /\ [][Next]_vars

(***************************************************************************)
(* SpecRace: the same component and the same handlers, with one text to    *)
(* submit and the data lines of a few events, followed over a longer log:  *)
(* long enough for two sessions that overlap and a failure after them.     *)
(***************************************************************************)
RaceInputs == { <<"h", "i">> }

RaceLines ==
    { DataPrefix \o d.text :
        d \in {d \in Docs : d.value \in {EvInterruptDestination, EvInterruptQuestion,
                                          EvError, EvStep, EvResult}} }

\* the log is shorter than MaxRaceLog
RaceRoom == Len(messages) < MaxRaceLog

NextRace ==
    \/ RaceRoom /\ \E text \in RaceInputs : FormSubmit(text)
    \/ RaceRoom /\ \E m \in 1..Len(messages) : \E i \in 0..1 : ClickOption(m, i)
    \/ RaceRoom /\ \E m \in 1..Len(messages) : AnswerQuestion(m, <<"5">>)
    \/ \E s \in 1..Len(sessions) : FetchOk(s)
    \/ RaceRoom /\ \E s \in 1..Len(sessions) : FetchFail(s)
    \/ RaceRoom /\ \E s \in 1..Len(sessions) : \E line \in RaceLines : ReadLine(s, line)
    \/ \E s \in 1..Len(sessions) : ReadDone(s)
    \/ RaceRoom /\ \E s \in 1..Len(sessions) : ReadFail(s)

SpecRace == Init /\ [][NextRace]_vars

(***************************************************************************)
(* SpecFold: the first sessions of the component with every document of    *)
(* the model on the wire: each case of handleStreamEvent is folded.        *)
(***************************************************************************)
AllLines ==
    { DataPrefix \o d.text : d \in Docs }
    \cup { DataPrefix \o <<"n", "o", "t", "-", "j", "s", "o", "n">>, <<>> }

\* the log is shorter than MaxFoldLog
FoldRoom == Len(messages) < MaxFoldLog

NextFold ==
    \/ FoldRoom /\ \E text \in RaceInputs : FormSubmit(text)
    \/ \E s \in 1..Len(sessions) : FetchOk(s)
    \/ FoldRoom /\ \E s \in 1..Len(sessions) : \E line \in AllLines : ReadLine(s, line)
    \/ \E s \in 1..Len(sessions) : ReadDone(s)

SpecFold == Init /\ [][NextFold]_vars

(***************************************************************************)
(* SpecDecode: the read loop of api.ts 33-52 on a byte stream that arrives *)
(* in chunks of any sizes.  The server writes `frames`, each followed by a *)
(* newline, and then `tail`; WireLines says, for each kind of line, what   *)
(* the server put into it.                                                 *)
(***************************************************************************)
\* The kinds of line of a response body: the bytes of the line, and the
\* values the server sent in it as a `data: ` frame of well-formed JSON.
WireLines ==
    << [bytes |-> DataPrefix \o <<"{", "s", "}">>, sent |-> <<EvStep>>],
       [bytes |-> DataPrefix \o <<"{", "C3", "A9", "}">>, sent |-> <<EvMessageAccent>>],
       [bytes |-> DataPrefix \o <<"n", "u", "l", "l">>, sent |-> <<Value("null")>>],
       \* not JSON
       [bytes |-> DataPrefix \o <<"n", "o", "-", "j">>, sent |-> <<>>],
       \* `data:` without the space
       [bytes |-> <<"d", "a", "t", "a", ":", "{", "s", "}">>, sent |-> <<>>],
       \* leading white space
       [bytes |-> <<" ">> \o DataPrefix \o <<"{", "s", "}">>, sent |-> <<>>],
       \* a blank line
       [bytes |-> <<>>, sent |-> <<>>],
       \* a comment line
       [bytes |-> <<":", "k">>, sent |-> <<>>] >>

\* what may follow the last newline of a body
WireTails ==
    { <<>>,
      DataPrefix \o <<"{", "s", "}">>,
      <<"d", "a", "t">> }

SeqsUpTo(S, n) == UNION {[1..k -> S] : k \in 0..n}

\* the bytes of the response body
Wire(fs, t) ==
    Flatten([i \in 1..Len(fs) |-> WireLines[fs[i]].bytes \o <<"\n">>]) \o t

DecInit ==
    /\ frames \in SeqsUpTo(1..Len(WireLines), MaxFrames)
    /\ tail \in WireTails
    /\ stream = Wire(frames, tail)
    /\ pos = 0
    /\ decPending = <<>>
    /\ buffer = <<>>
    /\ yielded = <<>>
    /\ rdone = FALSE

\* api.ts 35-50: reader.read() returns the next n bytes of the body
Read(n) ==
    /\ ~rdone
    /\ n \in 1..(Len(stream) - pos)
    /\ LET r == ReadChunk(decPending, buffer, SubSeq(stream, pos + 1, pos + n))
       IN  /\ decPending' = r.pending
           /\ buffer' = r.buffer
           /\ yielded' = yielded \o r.yields
    /\ pos' = pos + n
    /\ UNCHANGED <<frames, tail, stream, rdone>>
    /\ UNCHANGED ctlVars

\* a loop that parses what is left in the buffer when the stream is done
DoneFlushes ==
    /\ ~rdone
    /\ pos = Len(stream)
    /\ rdone' = TRUE
    /\ yielded' = yielded \o LineYield(buffer)
    /\ buffer' = <<>>
    /\ UNCHANGED <<frames, tail, stream, pos, decPending>>
    /\ UNCHANGED ctlVars

\* api.ts 35-36: reader.read() reports done; the loop breaks and the
\* generator returns, its buffer dropped with it
Done ==
    /\ ~rdone
    /\ pos = Len(stream)
    /\ rdone' = TRUE
    /\ UNCHANGED <<frames, tail, stream, pos, decPending, buffer, yielded>>
    /\ UNCHANGED ctlVars

NextDecode ==
    \/ \E n \in 1..(Len(stream) - pos) : Read(n)
    \/ Done

InitDecode == CtlInit /\ DecInit

SpecDecode == InitDecode /\ [][NextDecode]_vars

(***************************************************************************)
(* The claims.                                                             *)
(***************************************************************************)
\* the React state and the sessions: everything but the history `last`
ctlState == <<messages, isLoading, conversationId, currentStep, interruptData,
              selectedSeason, sessions>>

\* the data line that carries `event`
EventLine(event) == DataPrefix \o (CHOOSE d \in Docs : d.value = event).text

\* this step is a read, by some session's loop, of the line that carries
\* `event`
Folds(event) ==
    /\ EventLine(event) \in CtlLines
    /\ LineYield(EventLine(event)) = <<event>>
    /\ \E s \in 1..Len(sessions) : ReadLine(s, EventLine(event))

\* C1: once a conversation id is bound, no later step changes it: the bound
\* id stays the first conversation_id received, also when a later event of
\* the same stream carries another one.
C1_FirstBindWins ==
    [][conversationId # NoId => conversationId' = conversationId]_vars

\* C2: at most one session is open (its request sent, its read loop not yet
\* ended) in every reachable state.
C2_AtMostOneOpenSession == Cardinality(OpenSessions) <= 1

\* C3: an answer attempt made while no interrupt is held or no conversation
\* id is bound issues no request, appends nothing to the log and leaves
\* isLoading, interruptData, currentStep and conversationId as they were.
C3_RejectedAnswerChangesNothing ==
    [][(/\ last'.op = "answer"
        /\ (interruptData = NoInterrupt \/ conversationId = NoId))
       => UNCHANGED ctlState]_vars

\* C3 happens: handleInterruptResponse was called with an interrupt held
\* and no conversation id bound, and returned early
C3_Witness ==
    /\ last = Step("answer", "returned")
    /\ interruptData # NoInterrupt
    /\ conversationId = NoId

\* C4: a call of handleInterruptResponse whose precondition fails ends in
\* an error the caller sees, never in a plain return.
C4_RejectedAnswerIsReported ==
    (last.op = "answer" /\ last.outcome # "blocked")
        => last.outcome \in {"accepted", "threw"}

\* C5: a message is accepted only when the controller is idle (isLoading
\* false and no interrupt held): then handleSubmit opens one start session,
\* resets the step counter and appends the user entry; a submission while
\* busy or while an interrupt is held changes nothing.
C5_SubmitOnlyWhenIdle ==
    [][/\ (last'.op = "submit" /\ last'.outcome = "accepted")
            => /\ ~isLoading
               /\ interruptData = NoInterrupt
               /\ Len(sessions') = Len(sessions) + 1
               /\ sessions'[Len(sessions')].kind = "start"
               /\ currentStep' = 0
               /\ Len(messages') = Len(messages) + 1
               /\ SubSeq(messages', 1, Len(messages)) = messages
               /\ messages'[Len(messages')].type = "user"
       /\ (last'.op = "submit" /\ (isLoading \/ interruptData # NoInterrupt))
            => UNCHANGED ctlState]_vars

\* C5 happens: a message was submitted while an interrupt was held and the
\* controller was not busy, and was refused
C5_Witness ==
    /\ last = Step("submit", "blocked")
    /\ interruptData # NoInterrupt
    /\ ~isLoading

\* the InterruptContext an interrupt event carries
C6_Context(event) ==
    [held |-> TRUE, type |-> event.interrupt_type, question |-> event.question,
     field |-> event.field, options |-> event.options,
     missing_info |-> event.missing_info,
     budget_allocation |-> event.budget_allocation]

\* C6: the fold of an interrupt event leaves isLoading false and
\* interruptData holding that event's interrupt_type, question, field,
\* options, missing_info and budget_allocation, and appends exactly one
\* entry, of kind interrupt, to the log.
C6_InterruptAwaitsInput ==
    [][\A event \in {EvInterruptQuestion, EvInterruptDestination} :
          Folds(event)
            => /\ isLoading' = FALSE
               /\ interruptData' = C6_Context(event)
               /\ Len(messages') = Len(messages) + 1
               /\ SubSeq(messages', 1, Len(messages)) = messages
               /\ messages'[Len(messages')].type = "interrupt"
               /\ messages'[Len(messages')].content = event.question]_vars

\* C6 happens: an interrupt event was folded
C6_Witness ==
    /\ last = Step("read", "folded")
    /\ messages[Len(messages)].type = "interrupt"
    /\ interruptData # NoInterrupt
    /\ ~isLoading

\* the position in the log of the entry that opened session j (every
\* accepted handler call appends one user entry and opens one session)
UserPos(j) ==
    IF j = 0 THEN 0
    ELSE CHOOSE m \in 1..Len(messages) :
            /\ messages[m].type = "user"
            /\ Cardinality({k \in 1..m : messages[k].type = "user"}) = j

\* C7: an InterruptContext is consumed once: every resume request follows
\* an interrupt event folded since the previous accepted call, and leaves
\* no context behind for a further answer.
C7_InterruptConsumedOnce ==
    /\ \A j \in 1..Len(sessions) :
          sessions[j].kind = "resume"
            => \E m \in (UserPos(j - 1) + 1)..(UserPos(j) - 1) :
                  messages[m].type = "interrupt"
    /\ (last = Step("answer", "accepted") => interruptData = NoInterrupt)

\* C7 happens: an answer was accepted and a further attempt was refused
C7_Witness ==
    /\ last = Step("answer", "blocked")
    /\ interruptData = NoInterrupt
    /\ \E j \in 1..Len(sessions) : sessions[j].kind = "resume"

\* C8: whatever the chunks, the read loop has yielded what it yields when
\* the bytes delivered so far arrive as one chunk, with the same remainder
\* held back.
C8_FragmentationInvariant ==
    LET whole == ReadChunk(<<>>, <<>>, SubSeq(stream, 1, pos))
    IN  /\ yielded = whole.yields
        /\ buffer = whole.buffer
        /\ decPending = whole.pending

\* C8 happens: after a first value was yielded a chunk ended inside the
\* JSON payload of a data frame
C8_Witness ==
    /\ yielded # <<>>
    /\ StartsWith(buffer, DataPrefix)
    /\ Len(buffer) > Len(DataPrefix)
    /\ pos < Len(stream)

\* the newline-terminated lines delivered so far
LinesDelivered == Cardinality({k \in 1..pos : stream[k] = "\n"})

\* C9: the values yielded are those the server sent in the complete lines
\* that begin with `data: `, in order; every other line (blank, comment,
\* `data:` without the space, leading white space) yields nothing and
\* changes nothing around it.
C9_PrefixFilterExact ==
    yielded = Flatten([i \in 1..LinesDelivered |-> WireLines[frames[i]].sent])

\* C9 happens: the whole body was read, and it held a line with leading
\* white space before a data frame
C9_Witness ==
    /\ rdone
    /\ Len(frames) = 2
    /\ WireLines[frames[1]].bytes = <<" ">> \o DataPrefix \o <<"{", "s", "}">>
    /\ yielded = <<EvStep>>

\* the `data: ` lines whose payload is not JSON
MalformedLines == {line \in CtlLines : StartsWith(line, DataPrefix)
                                        /\ ~JSONParse(Slice(line, 6)).ok}

\* C10: a `data: ` line whose payload is not JSON yields nothing: the read
\* of it appends no entry, ends no session and changes no state, so the
\* frames around it are folded as they would be without it.
C10_MalformedFrameIsolated ==
    [][\A s \in 1..Len(sessions) : \A line \in MalformedLines :
          ReadLine(s, line) => UNCHANGED ctlState]_vars

\* C10 happens: a frame was folded, then a malformed frame was read, and
\* the session still reads
C10_Witness ==
    /\ last = Step("read", "parse-error")
    /\ Len(messages) >= 3
    /\ messages[Len(messages)].type # "user"
    /\ \E s \in 1..Len(sessions) : sessions[s].status = "reading"

\* C11: when the open of a session fails (a response that is not 2xx), the
\* session yields nothing, exactly one error entry is appended and the
\* controller is left idle: isLoading false and no interrupt held.
C11_FailedOpenEndsIdle ==
    [][\A s \in 1..Len(sessions) :
          FetchFail(s)
            => /\ messages' = Append(messages, ErrorEntry)
               /\ isLoading' = FALSE
               /\ interruptData' = NoInterrupt
               /\ sessions'[s].status = "ended"]_vars

\* C12: after any transport failure of a session (the open fails, or a
\* read fails after any events were folded) one error entry is appended,
\* no interrupt remains held and isLoading is false, so that the next
\* message is accepted.
C12_FailureReleasesInterrupt ==
    [][\A s \in 1..Len(sessions) :
          (FetchFail(s) \/ ReadFail(s))
            => /\ messages' = Append(messages, ErrorEntry)
               /\ isLoading' = FALSE
               /\ interruptData' = NoInterrupt
               /\ ~SubmitDisabled(<<"h", "i">>)']_vars

\* C13: the log is append-only: every step leaves the entries it found, in
\* their order, and adds zero or more entries after them.
C13_LogAppendOnly ==
    [][/\ Len(messages') >= Len(messages)
       /\ SubSeq(messages', 1, Len(messages)) = messages]_vars

\* C13 happens: a submit, an event, an interrupt and a failure have each
\* appended to the log
C13_Witness ==
    /\ Len(messages) >= 5
    /\ messages[1] = WelcomeMessage
    /\ messages[2].type = "user"
    /\ \E m \in 3..Len(messages) : messages[m].type = "interrupt"
    /\ messages[Len(messages)] = ErrorEntry

\* the step is an accepted handleSubmit
SubmitAccepted == last' = Step("submit", "accepted") /\ Len(sessions') > Len(sessions)

\* C14: between two accepted submits currentStep never decreases, whatever
\* events are folded and across resumes.
C14_CounterMonotone ==
    [][SubmitAccepted \/ currentStep' >= currentStep]_vars

\* C15: currentStep is reset only by a new turn: an accepted submit sets it
\* to 0, an answer leaves it as it is (the count before an interrupt is
\* carried into the resume session), and no other step takes it back to 0.
C15_ResetOnlyBySubmit ==
    [][/\ SubmitAccepted => currentStep' = 0
       /\ last'.op = "answer" => currentStep' = currentStep
       /\ (currentStep # 0 /\ currentStep' = 0) => SubmitAccepted]_vars

\* C15 happens: an answer was accepted with progress already counted
C15_Witness ==
    /\ last = Step("answer", "accepted")
    /\ currentStep > 0
    /\ sessions[Len(sessions)].kind = "resume"

\* C16: a result event folded while busy is terminal: right after the fold
\* the controller is idle (isLoading false, no interrupt held) and exactly
\* one result entry, whose data is the whole event, has been appended.
C16_ResultEndsBusy ==
    [][(isLoading /\ Folds(EvResult))
         => /\ isLoading' = FALSE
            /\ interruptData' = NoInterrupt
            /\ Len(messages') = Len(messages) + 1
            /\ messages'[Len(messages')].type = "result"
            /\ messages'[Len(messages')].data = EvResult]_vars

\* the entries of the log that are progress entries
IsProgress(entry) ==
    entry.type \in {"step", "research", "analysis", "season", "planning"}

\* the log is the welcome, one user entry, n progress entries and then
\* `results` result entries
SuccessLog(n, results) ==
    /\ Len(messages) = 2 + n + results
    /\ messages[1] = WelcomeMessage
    /\ messages[2].type = "user"
    /\ \A m \in 3..(2 + n) : IsProgress(messages[m])
    /\ \A m \in (3 + n)..Len(messages) : messages[m].type = "result"

C18_ErrorEndsBusy ==
    [][/\ Folds(EvError)
            => /\ isLoading' = FALSE
               /\ Len(messages') = Len(messages) + 1
               /\ SubSeq(messages', 1, Len(messages)) = messages
               /\ messages'[Len(messages')].type = "error"
       /\ (~isLoading /\ isLoading')
            => /\ last'.op \in {"submit", "answer"}
               /\ last'.outcome = "accepted"]_vars

\* C18 happens: an error event was folded and then a further event of the
\* stream, and the controller is still not busy
C18_Witness ==
    /\ last = Step("read", "folded")
    /\ ~isLoading
    /\ interruptData = NoInterrupt
    /\ Len(sessions) = 1
    /\ Len(messages) >= 4
    /\ messages[3].type = "error"
    /\ messages[3] # ErrorEntry
    /\ IsProgress(messages[Len(messages)])

\* the step is a call of handleInterruptResponse(value) that is accepted
Answers(value) ==
    /\ last' = Step("answer", "accepted")
    /\ Len(sessions') = Len(sessions) + 1
    /\ \/ value.isNum /\ \E m \in 1..Len(messages) : ClickOption(m, value.num)
       \/ ~value.isNum /\ \E m \in 1..Len(messages) : AnswerQuestion(m, value.text)

\* the values the controls can submit
AnswerValues ==
    {NumV(i) : i \in 0..3} \cup {StrV(t) : t \in SeasonTexts \cup AnswerTexts}

\* the echo the rule asks for
C19_Echo(interrupt, value) ==
    IF interrupt.type = "destination_selection"
    THEN IF /\ value.isNum
            /\ value.num < Len(interrupt.options)
            /\ interrupt.options[value.num + 1].name \notin {AbsentText, <<>>, <<"">>}
         THEN interrupt.options[value.num + 1].name
         ELSE <<"Option ">> \o (IF value.isNum THEN <<Digits[value.num + 1]>>
                                ELSE value.text)
    ELSE IF value.isNum THEN <<Digits[value.num + 1]>> ELSE value.text

\* C19: the echo of an accepted answer.  For a destination_selection
\* answered with index i the user entry's content is the name of option i
\* of the interrupt held, or `Option i` when that option is missing or has
\* no name; for a question it is the submitted value as text.
C19_AnswerEcho ==
    [][\A value \in AnswerValues :
          Answers(value)
            => /\ Len(messages') = Len(messages) + 1
               /\ messages'[Len(messages')].type = "user"
               /\ messages'[Len(messages')].content = C19_Echo(interruptData, value)]_vars

\* C19 happens: the option without a name was chosen and echoed by position
C19_Witness ==
    /\ last = Step("answer", "accepted")
    /\ messages[Len(messages)].type = "user"
    /\ messages[Len(messages)].content = <<"Option ", "1">>
    /\ sessions[Len(sessions)].body.value = NumV(1)

\* C20: every accepted answer issues exactly one resume request, whose
\* body carries the bound conversation id and the submitted value itself
\* (the index, or the raw text), not its display label.
C20_ValueForwarded ==
    [][\A value \in AnswerValues :
          Answers(value)
            => /\ conversationId # NoId
               /\ SubSeq(sessions', 1, Len(sessions)) = sessions
               /\ sessions'[Len(sessions')].kind = "resume"
               /\ sessions'[Len(sessions')].status = "fetching"
               /\ sessions'[Len(sessions')].body.conversation_id = conversationId
               /\ sessions'[Len(sessions')].body.value = value]_vars

\* C20 happens: the option named Kyoto was chosen and index 0 was sent
C20_Witness ==
    /\ last = Step("answer", "accepted")
    /\ messages[Len(messages)].content = T("Kyoto")
    /\ sessions[Len(sessions)].kind = "resume"
    /\ sessions[Len(sessions)].body.value = NumV(0)
    /\ sessions[Len(sessions)].body.conversation_id = "a"

\* the conversation ids that events carry
EventIds == {d.value.conversation_id : d \in Docs} \ {Absent}

\* C21: every request carries the id bound when it is issued: a streamChat
\* request carries the bound id, and null exactly when none is bound; a
\* resumeChat request carries the bound id; and an id sent is an id that
\* an event carried.
C21_BoundIdAttached ==
    [][Len(sessions') > Len(sessions)
         => LET new == sessions'[Len(sessions')]
            IN  /\ new.body.conversation_id = conversationId
                /\ new.kind = "resume" => new.body.conversation_id # NoId
                /\ new.body.conversation_id \in EventIds \cup {NoId}
                /\ conversationId' = conversationId]_vars

\* C21 happens: a message was submitted after an id was bound, and the
\* request carries the id
C21_Witness ==
    /\ last = Step("submit", "accepted")
    /\ Len(sessions) >= 2
    /\ sessions[Len(sessions)].kind = "start"
    /\ sessions[Len(sessions)].body.conversation_id = "a"
    /\ sessions[1].body.conversation_id = NoId

\* C22: when the consumer of a session stops iterating, the read loop
\* issues no further read and the connection is released.
C22_AbandonedSessionReleased ==
    \A s \in 1..Len(sessions) :
        sessions[s].status = "returned" => ~ConnectionOpen(s)

\* C23: while an interrupt is held, no fold replaces it: the interrupt an
\* answer is resolved against is the one captured, unchanged.
C23_HeldInterruptKept ==
    [][(interruptData # NoInterrupt /\ last'.op = "read")
         => interruptData' = interruptData]_vars

\* C24: currentStep is between 0 and 8 in every reachable state.
C24_CounterWithinTotal == currentStep \in 0..TotalSteps

\* this step is a read, by some session's loop, of the line that carries
\* `event`, whatever the lines of the specification
FoldsLine(event) ==
    /\ LineYield(EventLine(event)) = <<event>>
    /\ \E s \in 1..Len(sessions) : ReadLine(s, EventLine(event))

ProgressEvents == {EvStep, EvResearch, EvAnalysis, EvSeason, EvPlanning}

\* C25: the fold of a step, research, analysis, season or planning event
\* adds one to currentStep and appends one entry whose kind is the event's
\* type and which carries the event's step label, content and data;
\* isLoading and interruptData stay as they are.
C25_ProgressFold ==
    [][\A event \in ProgressEvents :
          FoldsLine(event)
            => /\ currentStep' = currentStep + 1
               /\ Len(messages') = Len(messages) + 1
               /\ SubSeq(messages', 1, Len(messages)) = messages
               /\ messages'[Len(messages')].type = event.type
               /\ messages'[Len(messages')].step = event.step
               /\ messages'[Len(messages')].data = event.data
               /\ event.content # AbsentText
                    => messages'[Len(messages')].content = event.content
               /\ UNCHANGED <<isLoading, interruptData>>]_vars

\* C25 happens: an analysis event and a planning event were folded
C25_Witness ==
    /\ Len(messages) = 4
    /\ messages[3].type = "analysis"
    /\ messages[4].type = "planning"
    /\ currentStep = 2
    /\ isLoading

\* C26: the fold of a resume event appends nothing and leaves isLoading,
\* interruptData, currentStep and selectedSeason unchanged.
C26_ResumeIgnored ==
    [][\A event \in {EvResume, EvResumeAck} :
          FoldsLine(event)
            => UNCHANGED <<messages, isLoading, interruptData, currentStep,
                           selectedSeason>>]_vars

\* C26 happens: a resume event (the only event that carries the id r) was
\* folded in a session that also folded an interrupt, which is still held
C26_Witness ==
    /\ conversationId = "r"
    /\ interruptData # NoInterrupt
    /\ ~isLoading
    /\ Len(messages) = 3
    /\ Len(sessions) = 1

\* C27: a system or message event with content appends one system entry
\* with that content, unless the content holds Starting or Processing:
\* then, for either type, nothing is appended; with empty content nothing
\* is appended.
C27_NarrationRule ==
    [][\A event \in {EvSystemStarting, EvSystemWelcome, EvMessageProcessing,
                      EvMessageEmpty} :
          Folds(event)
            => IF \/ event.content = <<>>
                  \/ Includes(event.content, Starting)
                  \/ Includes(event.content, Processing)
               THEN messages' = messages
               ELSE messages' = Append(messages,
                        Entry("system", Absent, event.content, NoData))]_vars

\* the kind of entry the fold of a value appends, if it appends one
EntryKind(value) ==
    IF value.json # "object" THEN "error"
    ELSE IF value.type \in {"system", "message"}
         THEN (IF value.contentIsString THEN "system" ELSE "error")
         ELSE value.type

\* C28: events are folded in arrival order, one at a time: the read of a
\* line folds the value of that line alone, and the entry it produces, if
\* any, is put after every entry produced before it.
C28_FoldInArrivalOrder ==
    [][\A s \in 1..Len(sessions) : \A line \in CtlLines :
          ReadLine(s, line)
            => \/ messages' = messages
               \/ /\ LineYield(line) # <<>>
                  /\ Len(messages') = Len(messages) + 1
                  /\ SubSeq(messages', 1, Len(messages)) = messages
                  /\ messages'[Len(messages')].type = EntryKind(LineYield(line)[1])]_vars

\* C28 happens: one session has folded a system event, an interrupt event
\* and an error event, and their entries lie in the log in that order
C28_Witness ==
    /\ Len(sessions) = 1
    /\ Len(messages) = 5
    /\ messages[3] = Entry("system", Absent, T("Welcome"), NoData)
    /\ messages[4].type = "interrupt"
    /\ messages[5].type = "error"
    /\ messages[5] # ErrorEntry

\* C29: when the stream is done, what lies in the buffer after the last
\* newline is dropped: the values yielded are those of the terminated
\* lines alone, also when the rest is a whole `data: ` document.
C29_RemainderDiscarded ==
    rdone => /\ yielded = Flatten([i \in 1..Len(frames) |-> WireLines[frames[i]].sent])
             /\ buffer = Remainder(Decode(<<>>, stream).text)

\* C29 happens: the stream ended with a whole data frame that lacks its
\* newline
C29_Witness ==
    /\ rdone
    /\ tail = DataPrefix \o <<"{", "s", "}">>
    /\ buffer = tail
    /\ Len(frames) >= 1

\* C30: when the transport of an opened session reports the end of the
\* stream or fails, isLoading is false after it; and if the session has
\* folded no result, interrupt or error event the controller is left idle:
\* no interrupt is held either.
C30_SessionEndReleasesBusy ==
    [][\A s \in 1..Len(sessions) :
          (ReadDone(s) \/ ReadFail(s))
            => /\ isLoading' = FALSE
               /\ ~sessions[s].terminal => interruptData' = NoInterrupt]_vars

\* C31: in no reachable state is the controller both busy and awaiting
\* human input: isLoading true and an interrupt held never hold together,
\* whatever the interleaving of submissions, answers, folds and session ends.
C31_BusyExcludesAwaiting == ~(isLoading /\ interruptData # NoInterrupt)

\* an interrupt has just been folded while two sessions were open
C31_Witness ==
    /\ last = Step("read", "folded")
    /\ interruptData # NoInterrupt
    /\ ~isLoading
    /\ Cardinality(OpenSessions) >= 2

\* C32: in every reachable state where the controller is Idle (isLoading
\* false and no interrupt held, so that the message input is enabled) no
\* session is open: nothing is left that could fold a further event.
C32_IdleIsQuiescent ==
    (~isLoading /\ interruptData = NoInterrupt) => OpenSessions = {}

\* C33: in every reachable state where an interrupt is held a conversation
\* id is bound, so an answer is never dropped by the early return of
\* handleInterruptResponse while the held interrupt disables the message
\* input.
C33_PendingInterruptAnswerable ==
    interruptData # NoInterrupt => conversationId # NoId

\* a value of valid JSON that is no well-formed event record: null, a
\* scalar, or a system event whose content is not a string
NotEventRecord(value) ==
    \/ value.json # "object"
    \/ value.type = "system" /\ ~value.contentIsString

\* C34: a `data: ` line whose payload is valid JSON but no well-formed
\* event record is skipped like a malformed one: the read step that
\* delivers it leaves the log as it is (no error entry) and the session in
\* its read loop, so the lines after it are still folded.
C34_IllFormedFrameSkipped ==
    [][\A s \in 1..Len(sessions) : \A line \in CtlLines :
          (/\ ReadLine(s, line)
           /\ LineYield(line) # <<>>
           /\ NotEventRecord(LineYield(line)[1]))
            => /\ messages' = messages
               /\ sessions'[s].status = "reading"]_vars

\* the user entries of the log
UserEntries == {m \in 1..Len(messages) : messages[m].type = "user"}

\* C35: the user entry of a turn precedes that turn's output: when a fold
\* of an event of session s adds an entry to the log, the user entry
\* appended by the call that opened s is in the log already, and the new
\* entry is placed after every entry of the log.
C35_UserEntryPrecedesOutput ==
    [][\A s \in 1..Len(sessions) : \A line \in CtlLines :
          (ReadLine(s, line) /\ last' = Step("read", "folded")
                             /\ messages' # messages)
            => /\ Cardinality(UserEntries) >= s
               /\ sessions[s].kind = "start"
                    => messages[UserPos(s)].content = sessions[s].body.message
               /\ Len(messages') = Len(messages) + 1
               /\ SubSeq(messages', 1, Len(messages)) = messages]_vars

\* the session opened by an answer has folded its result: the log ends
\* with the answer's user entry and the result after it
C35_Witness ==
    /\ last = Step("read", "folded")
    /\ Len(messages) >= 2
    /\ messages[Len(messages)].type = "result"
    /\ messages[Len(messages) - 1].type = "user"
    /\ Len(sessions) >= 2
    /\ sessions[Len(sessions)].kind = "resume"
    /\ \A j \in 1..(Len(sessions) - 1) : ~Open(j)
    /\ UserPos(Len(sessions)) = Len(messages) - 1

\* C36: a submission of empty or whitespace-only input is a no-op: no
\* session is opened, no entry is appended, and isLoading, currentStep,
\* interruptData, selectedSeason and conversationId stay as they are; an
\* accepted submission opens one session that sends the trimmed text, and
\* logs the trimmed text as its user entry.
C36_EmptySubmitNoOp ==
    [][\A text \in Inputs :
          FormSubmit(text)
            => IF Trim(text) = <<>>
               THEN UNCHANGED <<messages, isLoading, conversationId, currentStep,
                                interruptData, selectedSeason, sessions>>
               ELSE last' = Step("submit", "accepted")
                      => /\ messages' = Append(messages,
                                Entry("user", Absent, Trim(text), NoData))
                         /\ Len(sessions') = Len(sessions) + 1
                         /\ sessions'[Len(sessions')].body.message = Trim(text)]_vars

\* after an accepted submission the controller is idle again, and the
\* submission the user then attempts is refused: its input is empty
C36_Witness ==
    /\ last = Step("submit", "blocked")
    /\ ~isLoading
    /\ interruptData = NoInterrupt
    /\ Len(sessions) >= 1
====
